---- MODULE Spec2Model ----
(***************************************************************************)
(* Model of oslo/models/gpt_neo/configuration_gpt_neo.py:                  *)
(*   GPTNeoConfig (construction, expand_attention_types_params),           *)
(*   custom_unfold, custom_get_block_length_and_num_blocks,                *)
(*   GPTNeoOnnxConfig (inputs, generate_dummy_inputs,                      *)
(*   flatten_output_collection_property) and GPTNeoLayerPolicy             *)
(*   (reduce_arguments and the descriptors of every role).                 *)
(*                                                                         *)
(* Python lists and tuples are sequences (index 0 of the source is index 1 *)
(* here), an OrderedDict is a sequence of <<key, value>> pairs, a dict of  *)
(* axes is a function, a tensor is a record of its shape and its elements. *)
(* `call` holds the call a caller makes (operation and arguments), `ret`   *)
(* is Pending until the operation has run and then holds what it returned  *)
(* or raised. Each component has its own specification: SpecConfig,        *)
(* SpecResolve, SpecUnfold, SpecOnnx, SpecPolicy.                          *)
(***************************************************************************)
EXTENDS Integers, Sequences, FiniteSets, TLC

VARIABLES config, use_past, layer, call, ret

vars == <<config, use_past, layer, call, ret>>

(***************************************************************************)
(* Bounds of the model.                                                    *)
(***************************************************************************)
MaxGroups == 2
MaxCount == 2
MaxLayers == 4
MaxSeq == 12
MaxWindow == 10
MaxExtent == 4
MaxRank == 2
MaxSize == 7
MaxStep == 3
MaxBatch == 2
MaxDummySeq == 2
MaxWorld == 4
MaxRepeat == 3

None == [none |-> TRUE]

Returned(v) == [raised |-> "none", value |-> v]
Raised(e) == [raised |-> e, value |-> None]
Pending == [raised |-> "pending", value |-> None]

Max(S) == CHOOSE x \in S : \A y \in S : y <= x

(***************************************************************************)
(* GPTNeoConfig                                                            *)
(***************************************************************************)
\* range(n) runs max(n, 0) times: each turn extends the list by the pattern.
RECURSIVE extend_times(_, _, _)
extend_times(attentions, pattern, n) ==
    IF n <= 0 THEN attentions
    ELSE extend_times(attentions \o pattern, pattern, n - 1)

RECURSIVE expand_loop(_, _)
expand_loop(attentions, items) ==
    IF items = <<>> THEN attentions
    ELSE expand_loop(extend_times(attentions, Head(items)[1], Head(items)[2]),
                     Tail(items))

\* A mutant: range(item[1] + 1), one repetition too many.
RECURSIVE expand_loop_one_more(_, _)
expand_loop_one_more(attentions, items) ==
    IF items = <<>> THEN attentions
    ELSE expand_loop_one_more(
             extend_times(attentions, Head(items)[1], Head(items)[2] + 1),
             Tail(items))

expand_one_more(attention_types) == expand_loop_one_more(<<>>, attention_types)

\* A mutant: attentions.append(item[0][0]), one entry per repetition.
RECURSIVE expand_loop_first_only(_, _)
expand_loop_first_only(attentions, items) ==
    IF items = <<>> THEN attentions
    ELSE expand_loop_first_only(
             extend_times(attentions, <<Head(items)[1][1]>>, Head(items)[2]),
             Tail(items))

expand_first_only(attention_types) == expand_loop_first_only(<<>>, attention_types)

expand_attention_types_params(attention_types) == expand_loop(<<>>, attention_types)

\* A mutant: the length check only rejects a list that is too long.
GPTNeoConfig_init_too_long_only(hidden_size, num_layers, attention_types, num_heads) ==
    LET attention_layers == expand_attention_types_params(attention_types)
    IN  IF Len(attention_layers) > num_layers
        THEN Raised("ValueError")
        ELSE Returned([hidden_size |-> hidden_size,
                       num_layers |-> num_layers,
                       num_heads |-> num_heads,
                       attention_types |-> attention_types,
                       attention_layers |-> attention_layers])

GPTNeoConfig_init(hidden_size, num_layers, attention_types, num_heads) ==
    LET attention_layers == expand_attention_types_params(attention_types)
    IN  IF Len(attention_layers) # num_layers
        THEN Raised("ValueError")
        ELSE Returned([hidden_size |-> hidden_size,
                       num_layers |-> num_layers,
                       num_heads |-> num_heads,
                       attention_types |-> attention_types,
                       attention_layers |-> attention_layers])

(***************************************************************************)
(* torch primitives the two custom functions are written with.             *)
(***************************************************************************)
\* torch.arange(start, end, step) with step >= 1: start, start+step, ... < end.
arange(start, end, step) ==
    [i \in 1..((end - start + step - 1) \div step) |-> start + (i - 1) * step]

\* tensor[mask]: the entries whose mask is true, in order.
RECURSIVE masked_select(_, _)
masked_select(tensor, mask) ==
    IF tensor = <<>> THEN <<>>
    ELSE (IF Head(mask) THEN <<Head(tensor)>> ELSE <<>>)
            \o masked_select(Tail(tensor), Tail(mask))

\* torch.max / torch.min of a tensor that is not empty.
RECURSIVE torch_max(_)
torch_max(tensor) ==
    IF Len(tensor) = 1 THEN tensor[1]
    ELSE LET m == torch_max(Tail(tensor))
         IN  IF Head(tensor) > m THEN Head(tensor) ELSE m

RECURSIVE torch_min(_)
torch_min(tensor) ==
    IF Len(tensor) = 1 THEN tensor[1]
    ELSE LET m == torch_min(Tail(tensor))
         IN  IF Head(tensor) < m THEN Head(tensor) ELSE m

\* torch.div(a, b, rounding_mode="floor") with b >= 1.
floor_div(a, b) == a \div b

\* seq[:n] of Python: a negative n counts from the end.
slice_to(seq, n) ==
    IF n >= 0
    THEN SubSeq(seq, 1, IF n < Len(seq) THEN n ELSE Len(seq))
    ELSE SubSeq(seq, 1, IF Len(seq) + n > 0 THEN Len(seq) + n ELSE 0)

\* The index tuples (0-based entries) of a tensor of the given shape.
Indices(shape) ==
    IF \E a \in 1..Len(shape) : shape[a] = 0 THEN {}
    ELSE {idx \in [1..Len(shape) -> 0..(Max({shape[a] : a \in 1..Len(shape)}) - 1)] :
             \A a \in 1..Len(shape) : idx[a] < shape[a]}

\* tensor.permute(perm): axis i of the result is axis perm[i] of the tensor.
permute(tensor, perm) ==
    LET shape == [i \in 1..Len(perm) |-> tensor.shape[perm[i] + 1]]
    IN  [shape |-> shape,
         at |-> [idx \in Indices(shape) |->
                    tensor.at[[a \in 1..Len(perm) |->
                                  idx[CHOOSE i \in 1..Len(perm) : perm[i] + 1 = a]]]]]

\* input[s] with s[dimension] = indices (rows x size) and slice(None) elsewhere.
index_along(input, dimension, indices, size) ==
    LET rank == Len(input.shape)
        shape == SubSeq(input.shape, 1, dimension) \o <<Len(indices), size>>
                    \o SubSeq(input.shape, dimension + 2, rank)
    IN  [shape |-> shape,
         at |-> [idx \in Indices(shape) |->
                    input.at[[a \in 1..rank |->
                                 IF a <= dimension THEN idx[a]
                                 ELSE IF a = dimension + 1
                                      THEN indices[idx[dimension + 1] + 1][idx[dimension + 2] + 1]
                                      ELSE idx[a + 1]]]]]

(***************************************************************************)
(* custom_get_block_length_and_num_blocks                                  *)
(***************************************************************************)
\* A mutant: torch.arange(1, window_size + 1), the window size itself a candidate.
custom_get_block_length_and_num_blocks_inclusive(seq_length, window_size) ==
    IF window_size + 1 < 1 THEN Raised("RuntimeError")
    ELSE LET candidates == arange(1, window_size + 1, 1)
             remainders == [i \in DOMAIN candidates |-> seq_length % candidates[i]]
             divisor_indices == [i \in DOMAIN remainders |-> remainders[i] = 0]
             divisors == masked_select(candidates, divisor_indices)
         IN  IF divisors = <<>> THEN Raised("RuntimeError")
             ELSE LET largest_divisor == torch_max(divisors)
                  IN  Returned(<<largest_divisor, floor_div(seq_length, largest_divisor)>>)

\* A mutant: torch.min(divisors) instead of torch.max(divisors).
custom_get_block_length_and_num_blocks_smallest(seq_length, window_size) ==
    IF window_size < 1 THEN Raised("RuntimeError")
    ELSE LET candidates == arange(1, window_size, 1)
             remainders == [i \in DOMAIN candidates |-> seq_length % candidates[i]]
             divisor_indices == [i \in DOMAIN remainders |-> remainders[i] = 0]
             divisors == masked_select(candidates, divisor_indices)
         IN  IF divisors = <<>> THEN Raised("RuntimeError")
             ELSE LET largest_divisor == torch_min(divisors)
                  IN  Returned(<<largest_divisor, floor_div(seq_length, largest_divisor)>>)

\* torch.arange(1, window_size) raises for window_size < 1 (the upper bound is
\* below the lower one), torch.max raises for an empty tensor: RuntimeError both.
custom_get_block_length_and_num_blocks(seq_length, window_size) ==
    IF window_size < 1 THEN Raised("RuntimeError")
    ELSE LET candidates == arange(1, window_size, 1)
             remainders == [i \in DOMAIN candidates |-> seq_length % candidates[i]]
             divisor_indices == [i \in DOMAIN remainders |-> remainders[i] = 0]
             divisors == masked_select(candidates, divisor_indices)
         IN  IF divisors = <<>> THEN Raised("RuntimeError")
             ELSE LET largest_divisor == torch_max(divisors)
                  IN  Returned(<<largest_divisor, floor_div(seq_length, largest_divisor)>>)

(***************************************************************************)
(* custom_unfold                                                           *)
(***************************************************************************)
\* A mutant: min_length without the + 1, the last window dropped.
custom_unfold_one_window_short(input, dimension, size, step) ==
    LET shape == input.shape
        rank == Len(shape)
        sizedim == shape[dimension + 1]
        low_indices == arange(0, sizedim, step)
        min_length == floor_div(sizedim - size, step)
        rows == slice_to(low_indices, min_length)
        indices == [k \in 1..Len(rows) |-> [j \in 1..size |-> (j - 1) + rows[k]]]
        perm0 == [i \in 1..(rank + 1) |-> i - 1]
        perm == SubSeq(perm0, 1, dimension + 1) \o SubSeq(perm0, dimension + 3, rank + 1)
                    \o <<perm0[dimension + 2]>>
    IN  IF \E k \in 1..Len(rows) : \E j \in 1..size : indices[k][j] >= sizedim
        THEN Raised("IndexError")
        ELSE Returned(permute(index_along(input, dimension, indices, size), perm))

\* Indexing with a position at or past the extent raises IndexError.
custom_unfold(input, dimension, size, step) ==
    LET shape == input.shape
        rank == Len(shape)
        sizedim == shape[dimension + 1]
        low_indices == arange(0, sizedim, step)
        min_length == floor_div(sizedim - size, step) + 1
        rows == slice_to(low_indices, min_length)
        indices == [k \in 1..Len(rows) |-> [j \in 1..size |-> (j - 1) + rows[k]]]
        perm0 == [i \in 1..(rank + 1) |-> i - 1]
        perm == SubSeq(perm0, 1, dimension + 1) \o SubSeq(perm0, dimension + 3, rank + 1)
                    \o <<perm0[dimension + 2]>>
    IN  IF \E k \in 1..Len(rows) : \E j \in 1..size : indices[k][j] >= sizedim
        THEN Raised("IndexError")
        ELSE Returned(permute(index_along(input, dimension, indices, size), perm))

(***************************************************************************)
(* More torch primitives: tensors filled with one value, concatenation.    *)
(***************************************************************************)
full(shape, v) == [shape |-> shape, at |-> [idx \in Indices(shape) |-> v]]

torch_zeros(shape) == full(shape, 0)

torch_ones(shape) == full(shape, 1)

\* torch.cat([a, b], dim=1) of two tensors of rank 2 with the same first extent.
torch_cat_dim1(a, b) ==
    LET shape == <<a.shape[1], a.shape[2] + b.shape[2]>>
    IN  [shape |-> shape,
         at |-> [idx \in Indices(shape) |->
                    IF idx[2] < a.shape[2] THEN a.at[idx]
                    ELSE b.at[<<idx[1], idx[2] - a.shape[2]>>]]]

(***************************************************************************)
(* OrderedDict: a sequence of <<key, value>>; assigning to a key that is   *)
(* present keeps its place, a new key goes to the end.                     *)
(***************************************************************************)
dict_keys(d) == [i \in 1..Len(d) |-> d[i][1]]

dict_has(d, k) == \E i \in 1..Len(d) : d[i][1] = k

dict_get(d, k) == d[CHOOSE i \in 1..Len(d) : d[i][1] = k][2]

dict_set(d, k, v) ==
    IF dict_has(d, k)
    THEN [i \in 1..Len(d) |-> IF d[i][1] = k THEN <<k, v>> ELSE d[i]]
    ELSE Append(d, <<k, v>>)

(***************************************************************************)
(* GPTNeoOnnxConfig                                                        *)
(***************************************************************************)
\* f"past_key_values.{i}.key", f"past_key_values.{i}.value"
past_key_name(i) == "past_key_values." \o ToString(i) \o ".key"

past_value_name(i) == "past_key_values." \o ToString(i) \o ".value"

\* for i in range(num_layers): the key and the value entry of layer i.
RECURSIVE inputs_loop(_, _, _)
inputs_loop(common_inputs, i, num_layers) ==
    IF i >= num_layers THEN common_inputs
    ELSE inputs_loop(
             dict_set(dict_set(common_inputs, past_key_name(i),
                               (0 :> "batch" @@ 2 :> "past_sequence")),
                      past_value_name(i), (0 :> "batch" @@ 2 :> "past_sequence")),
             i + 1, num_layers)

\* A mutant: range(1, num_layers), layer 0 left out.
inputs_from_layer_one(cfg, past) ==
    LET common_inputs == << <<"input_ids", (0 :> "batch" @@ 1 :> "sequence")>> >>
    IN  IF past
        THEN dict_set(inputs_loop(common_inputs, 1, cfg.num_layers), "attention_mask",
                      (0 :> "batch" @@ 1 :> "past_sequence + sequence"))
        ELSE dict_set(common_inputs, "attention_mask",
                      (0 :> "batch" @@ 1 :> "sequence"))

\* The property GPTNeoOnnxConfig.inputs of an adapter over cfg in mode `past`.
inputs(cfg, past) ==
    LET common_inputs == << <<"input_ids", (0 :> "batch" @@ 1 :> "sequence")>> >>
    IN  IF past
        THEN dict_set(inputs_loop(common_inputs, 0, cfg.num_layers), "attention_mask",
                      (0 :> "batch" @@ 1 :> "past_sequence + sequence"))
        ELSE dict_set(common_inputs, "attention_mask",
                      (0 :> "batch" @@ 1 :> "sequence"))

\* [(torch.zeros(past_shape), torch.zeros(past_shape)) for _ in range(num_layers)]
past_key_values(past_shape, num_layers) ==
    [i \in 1..num_layers |-> <<torch_zeros(past_shape), torch_zeros(past_shape)>>]

\* A mutant: attention_mask is entered before past_key_values, and the
\* appended column is torch.zeros(batch, 1).
generate_dummy_inputs_mask_first(cfg, past, common_inputs, torch_available) ==
    LET ordered_inputs == << <<"input_ids", dict_get(common_inputs, "input_ids")>> >>
        batch == dict_get(common_inputs, "input_ids").shape[1]
        past_shape == <<batch, cfg.num_heads, 1, cfg.hidden_size \div cfg.num_heads>>
        with_mask == dict_set(ordered_inputs, "attention_mask",
                              dict_get(common_inputs, "attention_mask"))
    IN  IF past /\ ~torch_available THEN Raised("ValueError")
        ELSE IF past
        THEN Returned(dict_set(
                 dict_set(with_mask, "past_key_values",
                          past_key_values(past_shape, cfg.num_layers)),
                 "attention_mask",
                 torch_cat_dim1(dict_get(with_mask, "attention_mask"),
                                torch_zeros(<<batch, 1>>))))
        ELSE Returned(with_mask)

\* common_inputs is what the base class's generate_dummy_inputs returned.
generate_dummy_inputs(cfg, past, common_inputs, torch_available) ==
    LET ordered_inputs == << <<"input_ids", dict_get(common_inputs, "input_ids")>> >>
        batch == dict_get(common_inputs, "input_ids").shape[1]
        past_shape == <<batch, cfg.num_heads, 1, cfg.hidden_size \div cfg.num_heads>>
        with_past == IF past
                     THEN dict_set(ordered_inputs, "past_key_values",
                                   past_key_values(past_shape, cfg.num_layers))
                     ELSE ordered_inputs
        with_mask == dict_set(with_past, "attention_mask",
                              dict_get(common_inputs, "attention_mask"))
    IN  IF past /\ ~torch_available THEN Raised("ValueError")
        ELSE IF past
        THEN Returned(dict_set(with_mask, "attention_mask",
                               torch_cat_dim1(dict_get(with_mask, "attention_mask"),
                                              torch_ones(<<batch, 1>>))))
        ELSE Returned(with_mask)

\* The rule of the base class (transformers' OnnxConfig), which line 322
\* delegates to: {f"{name}.{idx}": item} over the chained items of the field.
RECURSIVE chain_from_iterable(_)
chain_from_iterable(field) ==
    IF field = <<>> THEN <<>> ELSE Head(field) \o chain_from_iterable(Tail(field))

base_flatten_output_collection_property(name, field) ==
    LET items == chain_from_iterable(field)
    IN  [idx \in 1..Len(items) |-> <<name \o "." \o ToString(idx - 1), items[idx]>>]

\* for idx, t in enumerate(field): the key and the value entry of pair idx.
RECURSIVE flatten_loop(_, _, _, _)
flatten_loop(flatten_output, name, field, idx) ==
    IF idx >= Len(field) THEN flatten_output
    ELSE flatten_loop(
             dict_set(dict_set(flatten_output,
                               name \o "." \o ToString(idx) \o ".key", field[idx + 1][1]),
                      name \o "." \o ToString(idx) \o ".value", field[idx + 1][2]),
             name, field, idx + 1)

\* A mutant: enumerate(field, 1), the pairs numbered from 1.
flatten_output_collection_property_from_one(name, field) ==
    IF name \in {"present", "past_key_values"}
    THEN [i \in 1..(2 * Len(field)) |->
             <<name \o "." \o ToString((i + 1) \div 2)
                    \o (IF i % 2 = 1 THEN ".key" ELSE ".value"),
               field[(i + 1) \div 2][2 - (i % 2)]>>]
    ELSE base_flatten_output_collection_property(name, field)

flatten_output_collection_property(name, field) ==
    IF name \in {"present", "past_key_values"}
    THEN flatten_loop(<<>>, name, field, 0)
    ELSE base_flatten_output_collection_property(name, field)

(***************************************************************************)
(* GPTNeoLayerPolicy                                                       *)
(***************************************************************************)
\* A mutant: the block's own fields are divided, so that calls accumulate.
reduce_arguments_cumulative(block, world_size, cfg) ==
    IF world_size = 0 THEN [raised |-> "ZeroDivisionError", layer |-> block]
    ELSE [raised |-> "none",
          layer |-> [embed_dim |-> block.embed_dim \div world_size,
                     num_heads |-> block.num_heads \div world_size]]

\* A mutant: the head count is left as configured, only embed_dim is divided.
reduce_arguments_heads_unreduced(block, world_size, cfg) ==
    IF world_size = 0 THEN [raised |-> "ZeroDivisionError", layer |-> block]
    ELSE [raised |-> "none",
          layer |-> [embed_dim |-> cfg.hidden_size \div world_size,
                     num_heads |-> cfg.num_heads]]

\* The block after the call, and what the call raised (// 0 raises before the
\* first assignment).
reduce_arguments(block, world_size, cfg) ==
    IF world_size = 0 THEN [raised |-> "ZeroDivisionError", layer |-> block]
    ELSE [raised |-> "none",
          layer |-> [embed_dim |-> cfg.hidden_size \div world_size,
                     num_heads |-> cfg.num_heads \div world_size]]

(***************************************************************************)
(* GPTNeoLayerPolicy: the descriptors. A module or tensor is the path that *)
(* reaches it; Layer(...) is the record of the keyword arguments given, a  *)
(* keyword that is not given is not in its domain; a replace dict is a     *)
(* function from the module kind to its parallel kind.                     *)
(***************************************************************************)
attr(obj, name) == obj \o "." \o name

\* A mutant: the three projections are described as row-parallel.
attn_qkv_row_parallel(block, cfg) ==
    << [module |-> attr(block, "attn.attention.q_proj"),
        weight |-> attr(block, "attn.attention.q_proj.weight"),
        replace |-> ("nn.Linear" :> "RowParallelLinear")],
       [module |-> attr(block, "attn.attention.k_proj"),
        weight |-> attr(block, "attn.attention.k_proj.weight"),
        replace |-> ("nn.Linear" :> "RowParallelLinear")],
       [module |-> attr(block, "attn.attention.v_proj"),
        weight |-> attr(block, "attn.attention.v_proj.weight"),
        replace |-> ("nn.Linear" :> "RowParallelLinear")] >>

attn_qkv(block, cfg) ==
    << [module |-> attr(block, "attn.attention.q_proj"),
        weight |-> attr(block, "attn.attention.q_proj.weight"),
        replace |-> ("nn.Linear" :> "ColumnParallelLinear")],
       [module |-> attr(block, "attn.attention.k_proj"),
        weight |-> attr(block, "attn.attention.k_proj.weight"),
        replace |-> ("nn.Linear" :> "ColumnParallelLinear")],
       [module |-> attr(block, "attn.attention.v_proj"),
        weight |-> attr(block, "attn.attention.v_proj.weight"),
        replace |-> ("nn.Linear" :> "ColumnParallelLinear")] >>

attn_out(block, cfg) ==
    << [module |-> attr(block, "attn.attention.out_proj"),
        weight |-> attr(block, "attn.attention.out_proj.weight"),
        bias |-> attr(block, "attn.attention.out_proj.bias"),
        replace |-> ("nn.Linear" :> "RowParallelLinear")] >>

attn_norm(block, cfg) ==
    << [module |-> attr(block, "ln_1"),
        weight |-> attr(block, "ln_1.weight"),
        bias |-> attr(block, "ln_1.bias"),
        parallel |-> FALSE] >>

mlp_in(block, cfg) ==
    << [module |-> attr(block, "mlp.c_fc"),
        weight |-> attr(block, "mlp.c_fc.weight"),
        bias |-> attr(block, "mlp.c_fc.bias"),
        replace |-> ("nn.Linear" :> "ColumnParallelLinear")] >>

mlp_out(block, cfg) ==
    << [module |-> attr(block, "mlp.c_proj"),
        weight |-> attr(block, "mlp.c_proj.weight"),
        bias |-> attr(block, "mlp.c_proj.bias"),
        replace |-> ("nn.Linear" :> "RowParallelLinear")] >>

mlp_norm(block, cfg) ==
    << [module |-> attr(block, "ln_2"),
        weight |-> attr(block, "ln_2.weight"),
        bias |-> attr(block, "ln_2.bias"),
        parallel |-> FALSE] >>

word_embedding(model, cfg) ==
    << [module |-> attr(model, "wte"),
        weight |-> attr(model, "wte.weight"),
        replace |-> ("nn.Embedding" :> "VocabParallelEmbedding")] >>

preblock_layers(model, cfg) ==
    << [module |-> attr(model, "wpe"),
        weight |-> attr(model, "wpe.weight"),
        parallel |-> FALSE] >>

postblock_layers(model, cfg) ==
    << [module |-> attr(model, "ln_f"),
        weight |-> attr(model, "ln_f.weight"),
        bias |-> attr(model, "ln_f.bias"),
        parallel |-> FALSE] >>

copy_to_all(block, cfg) ==
    << [bias |-> attr(block, "attn.attention.bias"), parallel |-> FALSE],
       [bias |-> attr(block, "attn.attention.masked_bias"), parallel |-> FALSE] >>

(***************************************************************************)
(* Inputs of the configuration operations.                                 *)
(***************************************************************************)
Patterns == {<<"global">>, <<"local">>, <<"global", "local">>}
Counts == (0 - 1)..MaxCount
Groups == Patterns \X Counts
AttentionTypes == UNION {[1..n -> Groups] : n \in 0..MaxGroups}
Dimensions == {<<4, 64>>, <<16, 2048>>}

ConstructorCalls ==
    {[op |-> "GPTNeoConfig", hidden_size |-> d[2], num_layers |-> n,
      attention_types |-> a, num_heads |-> d[1]] :
        d \in Dimensions, n \in 0..MaxLayers, a \in AttentionTypes}

ExpandCalls ==
    {[op |-> "expand_attention_types_params", attention_types |-> a] :
        a \in AttentionTypes}

\* The layer (block) a policy is handed is built from a configuration.
NewLayer(cfg) == [embed_dim |-> cfg.hidden_size, num_heads |-> cfg.num_heads]

\* A caller is about to make one call; no configuration object exists yet.
InitConfig ==
    /\ config = None
    /\ use_past = FALSE
    /\ layer = None
    /\ call \in ConstructorCalls \cup ExpandCalls
    /\ ret = Pending

\* GPTNeoConfig(hidden_size=, num_layers=, attention_types=, num_heads=)
Construct ==
    /\ call.op = "GPTNeoConfig"
    /\ ret = Pending
    /\ ret' = GPTNeoConfig_init(call.hidden_size, call.num_layers,
                                call.attention_types, call.num_heads)
    /\ config' = IF ret'.raised = "none" THEN ret'.value ELSE config
    /\ UNCHANGED <<use_past, layer, call>>

\* GPTNeoConfig.expand_attention_types_params(attention_types)
Expand ==
    /\ call.op = "expand_attention_types_params"
    /\ ret = Pending
    /\ ret' = Returned(expand_attention_types_params(call.attention_types))
    /\ UNCHANGED <<config, use_past, layer, call>>

NextConfig == Construct \/ Expand

SpecConfig == InitConfig /\ [][NextConfig]_vars

(***************************************************************************)
(* The block/divisor resolver, called with a sequence length and a window. *)
(***************************************************************************)
ResolveCalls ==
    {[op |-> "custom_get_block_length_and_num_blocks",
      seq_length |-> n, window_size |-> w] : n \in 1..MaxSeq, w \in 0..MaxWindow}

InitResolve ==
    /\ config = None
    /\ use_past = FALSE
    /\ layer = None
    /\ call \in ResolveCalls
    /\ ret = Pending

Resolve ==
    /\ call.op = "custom_get_block_length_and_num_blocks"
    /\ ret = Pending
    /\ ret' = custom_get_block_length_and_num_blocks(call.seq_length, call.window_size)
    /\ UNCHANGED <<config, use_past, layer, call>>

NextResolve == Resolve

SpecResolve == InitResolve /\ [][NextResolve]_vars

(***************************************************************************)
(* The sliding-window slicer, called on tensors of rank 1 and 2 whose      *)
(* elements are all different (element = its row-major position).          *)
(***************************************************************************)
RECURSIVE RowMajor(_, _)
RowMajor(shape, idx) ==
    IF shape = <<>> THEN 0
    ELSE LET n == Len(shape)
         IN  idx[n] + shape[n] * RowMajor(SubSeq(shape, 1, n - 1), SubSeq(idx, 1, n - 1))

\* torch.arange(numel).reshape(shape)
Iota(shape) == [shape |-> shape, at |-> [idx \in Indices(shape) |-> RowMajor(shape, idx)]]

Shapes == UNION {[1..r -> 1..MaxExtent] : r \in 1..MaxRank}

UnfoldCalls ==
    {[op |-> "custom_unfold", input |-> Iota(sh), dimension |-> d,
      size |-> w, step |-> st] :
        sh \in Shapes, d \in 0..(MaxRank - 1), w \in 1..MaxSize, st \in 1..MaxStep}

InitUnfold ==
    /\ config = None
    /\ use_past = FALSE
    /\ layer = None
    /\ call \in {c \in UnfoldCalls : c.dimension < Len(c.input.shape)}
    /\ ret = Pending

Unfold ==
    /\ call.op = "custom_unfold"
    /\ ret = Pending
    /\ ret' = custom_unfold(call.input, call.dimension, call.size, call.step)
    /\ UNCHANGED <<config, use_past, layer, call>>

NextUnfold == Unfold

SpecUnfold == InitUnfold /\ [][NextUnfold]_vars

(***************************************************************************)
(* The ONNX export adapter over a constructed configuration, in one of its *)
(* two modes; the base class supplies input_ids and attention_mask.        *)
(***************************************************************************)
OnnxDimensions == {<<2, 4>>, <<2, 5>>, <<4, 8>>}

\* Configurations of n global layers, as the constructor builds them.
ConfigsOf(dimensions) ==
    {GPTNeoConfig_init(d[2], n, << <<(<<"global">>), n>> >>, d[1]).value :
        d \in dimensions, n \in 0..MaxLayers}

MaskFills == {"ones", "zeros", "checked"}

Mask(shape, fill) ==
    [shape |-> shape,
     at |-> [idx \in Indices(shape) |->
                CASE fill = "ones" -> 1
                  [] fill = "zeros" -> 0
                  [] OTHER -> (idx[1] + idx[2]) % 2]]

BaseDummyInputs ==
    {<< <<"input_ids", Iota(<<b, n>>)>>, <<"attention_mask", Mask(<<b, m>>, f)>> >> :
        b \in 1..MaxBatch, n \in 1..MaxDummySeq, m \in 1..MaxDummySeq, f \in MaskFills}

\* Lists of (key, value) pairs as generate_dummy_inputs builds them.
FlattenFields ==
    {past_key_values(<<b, d[1], 1, d[2] \div d[1]>>, n) :
        b \in 1..MaxBatch, d \in OnnxDimensions, n \in 0..MaxLayers}

OnnxCalls ==
    {[op |-> "inputs"]}
        \cup {[op |-> "generate_dummy_inputs", common_inputs |-> c,
               torch_available |-> t] : c \in BaseDummyInputs, t \in BOOLEAN}
        \cup {[op |-> "flatten_output_collection_property", name |-> n, field |-> f] :
                 n \in {"present", "past_key_values"}, f \in FlattenFields}

InitOnnx ==
    /\ config \in ConfigsOf(OnnxDimensions)
    /\ use_past \in BOOLEAN
    /\ layer = None
    /\ call \in OnnxCalls
    /\ ret = Pending

Inputs ==
    /\ call.op = "inputs"
    /\ ret = Pending
    /\ ret' = Returned(inputs(config, use_past))
    /\ UNCHANGED <<config, use_past, layer, call>>

GenerateDummyInputs ==
    /\ call.op = "generate_dummy_inputs"
    /\ ret = Pending
    /\ ret' = generate_dummy_inputs(config, use_past, call.common_inputs,
                                    call.torch_available)
    /\ UNCHANGED <<config, use_past, layer, call>>

FlattenOutputCollectionProperty ==
    /\ call.op = "flatten_output_collection_property"
    /\ ret = Pending
    /\ ret' = Returned(flatten_output_collection_property(call.name, call.field))
    /\ UNCHANGED <<config, use_past, layer, call>>

NextOnnx == Inputs \/ GenerateDummyInputs \/ FlattenOutputCollectionProperty

SpecOnnx == InitOnnx /\ [][NextOnnx]_vars

(***************************************************************************)
(* The layer policy: a runtime reduces the arguments of one block of a     *)
(* model, any number of times, for a world size of its choice.             *)
(***************************************************************************)
PolicyDimensions == {<<16, 2048>>, <<4, 64>>, <<2, 8>>, <<3, 10>>}

InitPolicy ==
    /\ config \in ConfigsOf(PolicyDimensions)
    /\ use_past = FALSE
    /\ layer = NewLayer(config)
    /\ call = [op |-> "idle"]
    /\ ret = Returned(None)

\* call.repeat counts the consecutive calls made with this world size.
ReduceArguments ==
    \E world_size \in 0..MaxWorld :
        LET r == reduce_arguments(layer, world_size, config)
            before == IF call.op = "reduce_arguments" /\ call.world_size = world_size
                      THEN call.repeat ELSE 0
        IN  /\ call' = [op |-> "reduce_arguments", world_size |-> world_size,
                        repeat |-> IF before < MaxRepeat THEN before + 1 ELSE MaxRepeat]
            /\ layer' = r.layer
            /\ ret' = IF r.raised = "none" THEN Returned(None) ELSE Raised(r.raised)
            /\ UNCHANGED <<config, use_past>>

\* The blocks of the model, model.h[i], and the model itself.
BlockRef(i) == "model.h." \o ToString(i)

BlockRefs == {BlockRef(i) : i \in 0..(config.num_layers - 1)}

\* An accessor of the policy is called on a block (or the model) and returns.
Accessor(op, obj, descriptors) ==
    /\ call' = [op |-> op, obj |-> obj]
    /\ ret' = Returned(descriptors)
    /\ UNCHANGED <<config, use_past, layer>>

AttnQkv == \E b \in BlockRefs : Accessor("attn_qkv", b, attn_qkv(b, config))

AttnOut == \E b \in BlockRefs : Accessor("attn_out", b, attn_out(b, config))

AttnNorm == \E b \in BlockRefs : Accessor("attn_norm", b, attn_norm(b, config))

MlpIn == \E b \in BlockRefs : Accessor("mlp_in", b, mlp_in(b, config))

MlpOut == \E b \in BlockRefs : Accessor("mlp_out", b, mlp_out(b, config))

MlpNorm == \E b \in BlockRefs : Accessor("mlp_norm", b, mlp_norm(b, config))

WordEmbedding == Accessor("word_embedding", "model", word_embedding("model", config))

PreblockLayers == Accessor("preblock_layers", "model", preblock_layers("model", config))

PostblockLayers == Accessor("postblock_layers", "model", postblock_layers("model", config))

CopyToAll == \E b \in BlockRefs : Accessor("copy_to_all", b, copy_to_all(b, config))

NextPolicy ==
    \/ ReduceArguments
    \/ AttnQkv
    \/ AttnOut
    \/ AttnNorm
    \/ MlpIn
    \/ MlpOut
    \/ MlpNorm
    \/ WordEmbedding
    \/ PreblockLayers
    \/ PostblockLayers
    \/ CopyToAll

SpecPolicy == InitPolicy /\ [][NextPolicy]_vars

(***************************************************************************)
(* Claims about GPTNeoConfig.                                              *)
(***************************************************************************)
Finished(op) == call.op = op /\ ret # Pending

NonNegativeCounts(groups) == \A i \in 1..Len(groups) : groups[i][2] >= 0

\* count repetitions of one pattern, given element by element.
Repetitions(pattern, count) ==
    [i \in 1..(count * Len(pattern)) |-> pattern[((i - 1) % Len(pattern)) + 1]]

\* The repetitions of every group, joined in group order.
RECURSIVE ConcatenatedGroups(_)
ConcatenatedGroups(groups) ==
    IF groups = <<>> THEN <<>>
    ELSE Repetitions(groups[1][1], groups[1][2]) \o ConcatenatedGroups(Tail(groups))

RECURSIVE SumOfCounts(_)
SumOfCounts(groups) ==
    IF groups = <<>> THEN 0 ELSE groups[1][2] + SumOfCounts(Tail(groups))

RECURSIVE SumOfCountTimesPatternLength(_)
SumOfCountTimesPatternLength(groups) ==
    IF groups = <<>> THEN 0
    ELSE groups[1][2] * Len(groups[1][1]) + SumOfCountTimesPatternLength(Tail(groups))

\* C1: constructing a GPTNeoConfig raises the configuration error (ValueError)
\* exactly when the expanded attention list has a number of entries other than
\* num_layers, and succeeds otherwise; every constructed configuration has
\* len(attention_layers) = num_layers.
C1_ConstructFailsExactlyOnLengthMismatch ==
    /\ Finished("GPTNeoConfig") =>
          LET n == Len(expand_attention_types_params(call.attention_types))
          IN  /\ ret.raised \in {"none", "ValueError"}
              /\ (ret.raised = "ValueError") <=> (n # call.num_layers)
              /\ ret.raised = "none" =>
                    /\ config = ret.value
                    /\ config.num_layers = call.num_layers
                    /\ config.attention_types = call.attention_types
              /\ ret.raised = "ValueError" => config = None
    /\ config # None => Len(config.attention_layers) = config.num_layers

\* num_layers = 4 with groups expanding to 3 entries is rejected.
C1_Witness ==
    /\ Finished("GPTNeoConfig")
    /\ call.num_layers = 4
    /\ Len(expand_attention_types_params(call.attention_types)) = 3
    /\ ret.raised = "ValueError"

\* C2: for groups with non-negative counts, expand returns the concatenation,
\* in group order, of count repetitions of each group's pattern.
C2_ExpandIsConcatenationInGroupOrder ==
    (Finished("expand_attention_types_params")
        /\ NonNegativeCounts(call.attention_types)) =>
        /\ ret.raised = "none"
        /\ ret.value = ConcatenatedGroups(call.attention_types)

\* Two different groups, both repeated: [(["global","local"], 2), (["local"], 1)].
C2_Witness ==
    /\ Finished("expand_attention_types_params")
    /\ call.attention_types =
           << <<(<<"global", "local">>), 2>>, <<(<<"local">>), 1>> >>
    /\ ret.value = <<"global", "local", "global", "local", "local">>

DividesEvenly(d, n) == n % d = 0

\* C4: for a positive sequence length and a window size of at least 2, resolve
\* returns (window_length, block_count) with window_length the largest d in
\* [1, max_window) dividing the sequence length and window_length * block_count
\* equal to the sequence length; (12, 10) gives (6, 2) and (7, 5) gives (1, 7).
C4_ResolveReturnsLargestDivisorBelowWindow ==
    (Finished("custom_get_block_length_and_num_blocks")
        /\ call.seq_length >= 1 /\ call.window_size >= 2) =>
        /\ ret.raised = "none"
        /\ LET window_length == ret.value[1]
               block_count == ret.value[2]
           IN  /\ window_length \in 1..(call.window_size - 1)
               /\ DividesEvenly(window_length, call.seq_length)
               /\ \A d \in 1..(call.window_size - 1) :
                      DividesEvenly(d, call.seq_length) => d <= window_length
               /\ window_length * block_count = call.seq_length
        /\ (call.seq_length = 12 /\ call.window_size = 10) => ret.value = <<6, 2>>
        /\ (call.seq_length = 7 /\ call.window_size = 5) => ret.value = <<1, 7>>

C4_Witness ==
    /\ Finished("custom_get_block_length_and_num_blocks")
    /\ call.seq_length = 12
    /\ call.window_size = 10
    /\ ret = Returned(<<6, 2>>)

\* C5: resolve fails (the spec's NoValidWindowError, torch's RuntimeError) if
\* and only if no candidate in [1, max_window) divides the sequence length,
\* which for a positive sequence length is exactly when max_window <= 1.
C5_ResolveFailsExactlyWithoutCandidates ==
    Finished("custom_get_block_length_and_num_blocks") =>
        /\ ret.raised \in {"none", "RuntimeError"}
        /\ (ret.raised = "RuntimeError") <=>
              ~ \E d \in 1..(call.window_size - 1) : DividesEvenly(d, call.seq_length)
        /\ (ret.raised = "RuntimeError") <=> (call.window_size <= 1)

C5_Witness ==
    /\ Finished("custom_get_block_length_and_num_blocks")
    /\ call.window_size = 1
    /\ call.seq_length = 7
    /\ ret.raised = "RuntimeError"

(***************************************************************************)
(* Claims about custom_unfold.                                             *)
(***************************************************************************)
Extent == call.input.shape[call.dimension + 1]

\* C6: with 1 <= window_size <= extent and step >= 1, custom_unfold produces
\* floor((E - w) / s) + 1 windows along the sliced axis, the window offset on a
\* new trailing axis, and element (k, j) is the input element at k * s + j.
C6_UnfoldWindowsReproduceInput ==
    (Finished("custom_unfold") /\ 1 <= call.size /\ call.size <= Extent
        /\ call.step >= 1) =>
        /\ ret.raised = "none"
        /\ LET shape == call.input.shape
               rank == Len(shape)
               d == call.dimension
               windows == ((Extent - call.size) \div call.step) + 1
               out == ret.value
           IN  /\ out.shape = SubSeq(shape, 1, d) \o <<windows>>
                                 \o SubSeq(shape, d + 2, rank) \o <<call.size>>
               /\ windows >= 1
               /\ DOMAIN out.at = Indices(out.shape)
               /\ \A idx \in Indices(out.shape) :
                      out.at[idx] =
                          call.input.at[[a \in 1..rank |->
                              IF a = d + 1
                              THEN idx[d + 1] * call.step + idx[rank + 1]
                              ELSE idx[a]]]

\* Overlapping windows of a rank-2 tensor: extent 4, window 2, step 1, 3 windows.
C6_Witness ==
    /\ Finished("custom_unfold")
    /\ call.input.shape = <<4, 2>>
    /\ call.dimension = 0
    /\ call.size = 2
    /\ call.step = 1
    /\ ret.raised = "none"
    /\ ret.value.shape = <<3, 2, 2>>

\* C7: for every extent E >= 1, step >= 1 and window_size > E, custom_unfold
\* produces zero windows and does not fail or index outside the input.
C7_OversizedWindowGivesZeroWindows ==
    (Finished("custom_unfold") /\ call.size > Extent /\ call.step >= 1) =>
        /\ ret.raised = "none"
        /\ ret.value.shape[call.dimension + 1] = 0

(***************************************************************************)
(* Claims about GPTNeoOnnxConfig.                                          *)
(***************************************************************************)
BaseInputIds == dict_get(call.common_inputs, "input_ids")

BaseMask == dict_get(call.common_inputs, "attention_mask")

IsZeroTensorOfShape(tensor, shape) ==
    /\ tensor.shape = shape
    /\ DOMAIN tensor.at = Indices(shape)
    /\ \A idx \in Indices(shape) : tensor.at[idx] = 0

\* C8: generate_dummy_inputs returns its entries in the order of the forward
\* call. Use-past mode: input_ids, then past_key_values with one zero-filled
\* (key, value) pair per layer, each of shape
\* (batch, num_heads, 1, hidden_size // num_heads), then attention_mask, the
\* base mask with one more column, all ones. No-past mode: input_ids, then the
\* base attention_mask unchanged, and no past_key_values.
C8_DummyInputsInForwardOrder ==
    Finished("generate_dummy_inputs") =>
        /\ (ret.raised = "none") <=> ~(use_past /\ ~call.torch_available)
        /\ (ret.raised = "none" /\ ~use_past) =>
              ret.value = << <<"input_ids", BaseInputIds>>,
                             <<"attention_mask", BaseMask>> >>
        /\ (ret.raised = "none" /\ use_past) =>
              LET batch == BaseInputIds.shape[1]
                  past_shape == <<batch, config.num_heads, 1,
                                  config.hidden_size \div config.num_heads>>
                  past == ret.value[2][2]
                  mask == ret.value[3][2]
              IN  /\ Len(ret.value) = 3
                  /\ ret.value[1] = <<"input_ids", BaseInputIds>>
                  /\ ret.value[2][1] = "past_key_values"
                  /\ Len(past) = config.num_layers
                  /\ \A i \in 1..Len(past) :
                         /\ Len(past[i]) = 2
                         /\ IsZeroTensorOfShape(past[i][1], past_shape)
                         /\ IsZeroTensorOfShape(past[i][2], past_shape)
                  /\ (config.hidden_size % config.num_heads = 0) =>
                         past_shape[4] * config.num_heads = config.hidden_size
                  /\ ret.value[3][1] = "attention_mask"
                  /\ mask.shape = <<BaseMask.shape[1], BaseMask.shape[2] + 1>>
                  /\ DOMAIN mask.at = Indices(mask.shape)
                  /\ \A idx \in Indices(mask.shape) :
                         mask.at[idx] = IF idx[2] < BaseMask.shape[2]
                                        THEN BaseMask.at[idx] ELSE 1

\* Use-past mode, two layers, a base mask of zeros: the new column is ones.
C8_Witness ==
    /\ Finished("generate_dummy_inputs")
    /\ use_past
    /\ config.num_layers = 2
    /\ ret.raised = "none"
    /\ BaseMask = Mask(<<2, 2>>, "zeros")
    /\ dict_keys(ret.value) = <<"input_ids", "past_key_values", "attention_mask">>
    /\ dict_get(ret.value, "attention_mask").shape = <<2, 3>>
    /\ dict_get(ret.value, "attention_mask").at[<<1, 2>>] = 1

DigitString == <<"0", "1", "2", "3", "4", "5", "6", "7", "8", "9">>

BatchSequenceAxes == (0 :> "batch" @@ 1 :> "sequence")

BatchPastAxes == (0 :> "batch" @@ 2 :> "past_sequence")

\* C9: inputs declares, in no-past mode, exactly input_ids and attention_mask
\* with axes {0: batch, 1: sequence}; in use-past mode input_ids, then for every
\* layer i in 0..num_layers-1 past_key_values.i.key and past_key_values.i.value
\* with axes {0: batch, 2: past_sequence}, then attention_mask whose axis 1 is
\* "past_sequence + sequence".
C9_InputsDeclareLayerCacheAxes ==
    Finished("inputs") =>
        /\ ret.raised = "none"
        /\ ~use_past =>
              ret.value = << <<"input_ids", BatchSequenceAxes>>,
                             <<"attention_mask", BatchSequenceAxes>> >>
        /\ use_past =>
              /\ Len(ret.value) = 2 * config.num_layers + 2
              /\ ret.value[1] = <<"input_ids", BatchSequenceAxes>>
              /\ \A i \in 0..(config.num_layers - 1) :
                     /\ ret.value[2 + 2 * i] =
                            <<"past_key_values." \o DigitString[i + 1] \o ".key",
                              BatchPastAxes>>
                     /\ ret.value[3 + 2 * i] =
                            <<"past_key_values." \o DigitString[i + 1] \o ".value",
                              BatchPastAxes>>
              /\ ret.value[Len(ret.value)] =
                     <<"attention_mask",
                       (0 :> "batch" @@ 1 :> "past_sequence + sequence")>>

C9_Witness ==
    /\ Finished("inputs")
    /\ use_past
    /\ config.num_layers = 2
    /\ dict_keys(ret.value) =
           <<"input_ids", "past_key_values.0.key", "past_key_values.0.value",
             "past_key_values.1.key", "past_key_values.1.value", "attention_mask">>

(***************************************************************************)
(* Claims about GPTNeoLayerPolicy.reduce_arguments.                        *)
(***************************************************************************)
\* C10: reduce_arguments sets the block's embedding dimension to
\* config.hidden_size div shard_count and its head count to config.num_heads
\* div shard_count (16 heads, hidden 2048, 4 shards: 4 and 512), whatever the
\* block held before: after any number of calls with the same shard_count the
\* block holds what one call leaves.
C10_ReduceDependsOnConfigAndShardCountOnly ==
    (Finished("reduce_arguments") /\ call.world_size >= 1) =>
        /\ ret.raised = "none"
        /\ layer.embed_dim = config.hidden_size \div call.world_size
        /\ layer.num_heads = config.num_heads \div call.world_size
        /\ layer = reduce_arguments(NewLayer(config), call.world_size, config).layer
        /\ (config.num_heads = 16 /\ config.hidden_size = 2048 /\ call.world_size = 4) =>
              layer = [embed_dim |-> 512, num_heads |-> 4]

\* The second call in a row with 4 shards on 16 heads, hidden size 2048.
C10_Witness ==
    /\ Finished("reduce_arguments")
    /\ call.world_size = 4
    /\ call.repeat >= 2
    /\ config.num_heads = 16
    /\ config.hidden_size = 2048
    /\ layer = [embed_dim |-> 512, num_heads |-> 4]

(***************************************************************************)
(* Claims about the descriptors of GPTNeoLayerPolicy.                      *)
(***************************************************************************)
Given(d, keyword) == keyword \in DOMAIN d

\* Not marked non-parallel, and replaced by the given parallel kind.
Substitutes(d, from, to) ==
    /\ Given(d, "replace")
    /\ d.replace = (from :> to)
    /\ ~(Given(d, "parallel") /\ d.parallel = FALSE)

NonParallelWithoutRule(d) ==
    /\ Given(d, "parallel")
    /\ d.parallel = FALSE
    /\ ~Given(d, "replace")

WeightOf(d, path) ==
    /\ Given(d, "module") /\ d.module = attr(call.obj, path)
    /\ Given(d, "weight") /\ d.weight = attr(call.obj, path \o ".weight")

BiasOf(d, path) == Given(d, "bias") /\ d.bias = attr(call.obj, path \o ".bias")

\* C11: the policy gives every role its sharding instruction. Query, key and
\* value: three descriptors, column-parallel (nn.Linear -> ColumnParallelLinear),
\* weight and no bias. Attention output and MLP-out: row-parallel
\* (nn.Linear -> RowParallelLinear), weight and bias. MLP-in: column-parallel,
\* weight and bias. Word embedding: nn.Embedding -> VocabParallelEmbedding.
\* Attention norm, MLP norm, positional embedding (pre-block) and final norm
\* (post-block): non-parallel, no substitution rule. The two replicated
\* buffers (causal bias, masked bias): non-parallel, no weight, no rule.
C11_PolicyAssignsEveryRoleItsInstruction ==
    /\ Finished("attn_qkv") =>
          /\ Len(ret.value) = 3
          /\ \A i \in 1..3 :
                 /\ Substitutes(ret.value[i], "nn.Linear", "ColumnParallelLinear")
                 /\ WeightOf(ret.value[i],
                             "attn.attention." \o <<"q_proj", "k_proj", "v_proj">>[i])
                 /\ ~Given(ret.value[i], "bias")
    /\ Finished("attn_out") =>
          /\ Len(ret.value) = 1
          /\ Substitutes(ret.value[1], "nn.Linear", "RowParallelLinear")
          /\ WeightOf(ret.value[1], "attn.attention.out_proj")
          /\ BiasOf(ret.value[1], "attn.attention.out_proj")
    /\ Finished("mlp_out") =>
          /\ Len(ret.value) = 1
          /\ Substitutes(ret.value[1], "nn.Linear", "RowParallelLinear")
          /\ WeightOf(ret.value[1], "mlp.c_proj")
          /\ BiasOf(ret.value[1], "mlp.c_proj")
    /\ Finished("mlp_in") =>
          /\ Len(ret.value) = 1
          /\ Substitutes(ret.value[1], "nn.Linear", "ColumnParallelLinear")
          /\ WeightOf(ret.value[1], "mlp.c_fc")
          /\ BiasOf(ret.value[1], "mlp.c_fc")
    /\ Finished("word_embedding") =>
          /\ Len(ret.value) = 1
          /\ Substitutes(ret.value[1], "nn.Embedding", "VocabParallelEmbedding")
          /\ WeightOf(ret.value[1], "wte")
    /\ Finished("attn_norm") =>
          /\ Len(ret.value) = 1
          /\ NonParallelWithoutRule(ret.value[1])
          /\ WeightOf(ret.value[1], "ln_1")
    /\ Finished("mlp_norm") =>
          /\ Len(ret.value) = 1
          /\ NonParallelWithoutRule(ret.value[1])
          /\ WeightOf(ret.value[1], "ln_2")
    /\ Finished("preblock_layers") =>
          /\ Len(ret.value) = 1
          /\ NonParallelWithoutRule(ret.value[1])
          /\ WeightOf(ret.value[1], "wpe")
    /\ Finished("postblock_layers") =>
          /\ Len(ret.value) = 1
          /\ NonParallelWithoutRule(ret.value[1])
          /\ WeightOf(ret.value[1], "ln_f")
    /\ Finished("copy_to_all") =>
          /\ Len(ret.value) = 2
          /\ \A i \in 1..2 :
                 /\ NonParallelWithoutRule(ret.value[i])
                 /\ ~Given(ret.value[i], "weight")
                 /\ ret.value[i].bias =
                        attr(call.obj, "attn.attention." \o <<"bias", "masked_bias">>[i])

\* The projections of the second block of a model, after a reduction.
C11_Witness ==
    /\ Finished("attn_qkv")
    /\ call.obj = "model.h.1"
    /\ Len(ret.value) = 3
    /\ ret.value[3].weight = "model.h.1.attn.attention.v_proj.weight"
    /\ layer # NewLayer(config)

(***************************************************************************)
(* Claims that relate operations.                                          *)
(***************************************************************************)
\* C12: expand fails with the configuration error (ValueError) when a group's
\* count is negative, instead of skipping the group or returning a shorter
\* list, and never fails when every count is non-negative.
C12_ExpandRejectsNegativeCounts ==
    Finished("expand_attention_types_params") =>
        (ret.raised = "ValueError") <=> ~NonNegativeCounts(call.attention_types)

\* The names of a mapping of dummy inputs, the past_key_values entry replaced
\* by the names flatten_output_collection_property gives its pairs.
RECURSIVE FlattenedNames(_)
FlattenedNames(d) ==
    IF d = <<>> THEN <<>>
    ELSE (IF Head(d)[1] = "past_key_values"
          THEN dict_keys(flatten_output_collection_property("past_key_values", Head(d)[2]))
          ELSE <<Head(d)[1]>>)
            \o FlattenedNames(Tail(d))

\* input_ids, past_key_values.0.key, past_key_values.0.value, ...,
\* past_key_values.(n-1).value, attention_mask
NamesWithPast(n) ==
    <<"input_ids">>
        \o [i \in 1..(2 * n) |->
               "past_key_values." \o DigitString[(i + 1) \div 2]
                   \o (IF i % 2 = 1 THEN ".key" ELSE ".value")]
        \o <<"attention_mask">>

\* C13: the names inputs declares, in order, are the names of the dummy
\* inputs with the past_key_values entry flattened: in use-past mode
\* input_ids, past_key_values.0.key, past_key_values.0.value, ...,
\* past_key_values.(num_layers-1).value, attention_mask, for every
\* num_layers >= 0; in no-past mode input_ids, attention_mask.
C13_DeclaredNamesAreFlattenedDummyNames ==
    (Finished("generate_dummy_inputs") /\ ret.raised = "none") =>
        /\ FlattenedNames(ret.value) = dict_keys(inputs(config, use_past))
        /\ use_past => FlattenedNames(ret.value) = NamesWithPast(config.num_layers)
        /\ ~use_past => FlattenedNames(ret.value) = <<"input_ids", "attention_mask">>

C13_Witness ==
    /\ Finished("generate_dummy_inputs")
    /\ ret.raised = "none"
    /\ use_past
    /\ config.num_layers = 3
    /\ Len(FlattenedNames(ret.value)) = 8
    /\ FlattenedNames(ret.value)[7] = "past_key_values.2.value"
    /\ dict_keys(inputs(config, use_past))[7] = "past_key_values.2.value"

Divides(d, n) == n % d = 0

ShapeConsistent(block, cfg) ==
    /\ block.embed_dim = block.num_heads * (cfg.hidden_size \div cfg.num_heads)
    /\ block.num_heads >= 1

\* C14: for a configuration whose num_heads divides hidden_size,
\* reduce_arguments never fails for a shard_count >= 1, and leaves a block with
\* embed_dim = num_heads * (config.hidden_size / config.num_heads) and
\* num_heads >= 1 whenever shard_count divides config.num_heads; when it does
\* not, the call completes all the same and can leave a block that breaks the
\* equality or has num_heads = 0 (the state of C14_Witness).
C14_ReduceConsistentWhenShardCountDividesHeads ==
    (Finished("reduce_arguments") /\ call.world_size >= 1
        /\ Divides(config.num_heads, config.hidden_size)) =>
        /\ ret.raised = "none"
        /\ Divides(call.world_size, config.num_heads) => ShapeConsistent(layer, config)

\* 2 heads, hidden size 8, 3 shards: the call returns, the block has 0 heads
\* and embed_dim 2.
C14_Witness ==
    /\ Finished("reduce_arguments")
    /\ call.world_size >= 1
    /\ Divides(config.num_heads, config.hidden_size)
    /\ ~Divides(call.world_size, config.num_heads)
    /\ ret.raised = "none"
    /\ layer.num_heads = 0
    /\ layer.embed_dim # layer.num_heads * (config.hidden_size \div config.num_heads)

====
